---- MODULE Spec2Model ----
\* Model of the PenTool drawing widget (traditional build, PenTool.prototype.*):
\* the stroke store, the temporal compositor (renderStrokes) and the mouse /
\* touch input handlers, together with the public calls that interleave with
\* them (toolbar selection, setActiveTool, clearAll, enable, disable, init,
\* destroy).  One action is one public call or the dispatch of one input
\* event: the event's handler runs once for every set of listeners attached
\* to the event's target, back to back.
\*
\* A path element is named by the number of its creation (1, 2, ...); its 'd'
\* attribute is kept wherever the element is referenced: in the stroke that
\* holds it (field d) and, for the live pen path, in the drawing container;
\* so is its 'stroke-width' attribute (field width).
\* Array.prototype.sort is stable (ECMAScript 2019).  Date.now() does not
\* decrease; the clock is observed when a session begins and when it ends.
EXTENDS Integers, Sequences, FiniteSets, TLC

\* ---------------------------------------------------------------- bounds
MaxElems == 2        \* number of path elements created over a run
MaxPathLen == 2      \* points the pointer delivers to one path
MaxClock == 1        \* Date.now() returns one of 0..MaxClock
MaxStore == 3        \* length of the arrays renderStrokes is checked on apart

\* the svg's bounding box (getBoundingClientRect) while it is displayed
RectWidth == 100
RectHeight == 100

\* the pointer follows one trajectory in every session: its k-th sample
SamplePoint(k) == <<10 * (k - 1), 0>>
\* a touch outside the svg's bounding box
OutPoint == <<110, 0>>
TouchCounts == {1, 2}

\* options.lineWidth || 3, options.eraserWidth || 15
DefaultLineWidth == 3
DefaultEraserWidth == 15
\* the widths updateOptions is called with
LineWidths == {DefaultLineWidth, 5}
EraserWidths == {DefaultEraserWidth, 20}

Tools == {"pen", "eraser", "hand"}
ToolNames == Tools \cup {"clear"}
NULL == 0

VARIABLES
  initialized,            \* this.svg / this.toolbar / this.drawingContainer exist
  isEnabled,
  bound,                  \* this.boundHandle* name an attached set of listeners
  leaked,                 \* where listeners no reference names are attached:
                          \* "svg" (every target), "window" (all but the svg), "none"
  currentTool,
  isDrawing,
  currentPath,            \* NULL or the path element being drawn
  currentPathData,        \* the 'd' string being built: sequence of commands
  currentPathWidth,       \* the 'stroke-width' attribute of currentPath, NULL
                          \* when there is no current path
  strokes,                \* the stroke store, in array order
  temporaryEraserStroke,  \* NULL or the element of the temporary stroke
  nextId,                 \* the number the next path element gets
  eraserIndicator,        \* TRUE iff this.eraserIndicator is non-null
  drawingContainer,       \* children of the drawing container, in order
  now,                    \* the clock when a session last began or ended
  lineWidth,              \* this.lineWidth (this.lineColor is read and written
                          \* on the same lines and is not modelled apart)
  eraserWidth,            \* this.eraserWidth
  pointerEvents,          \* this.svg.style.pointerEvents: "auto" or "none"
                          \* ("none" while there is no svg)
  handMode,               \* the target element has the class pen-tool-hand-mode
                          \* (and touch-action auto)
  other,                  \* the fields of a second PenTool instance of the
                          \* same document, attached to another element
  rendered,               \* history: renderStrokes calls made by the last step
  returned,               \* history: <<isEnabled before, value returned>> of
                          \* the toggle() call the last step made, else <<>>
  session                 \* history: the input session as delivered

vars == <<initialized, isEnabled, bound, leaked, currentTool, isDrawing,
          currentPath, currentPathData, currentPathWidth, strokes,
          temporaryEraserStroke, nextId, eraserIndicator, drawingContainer, now,
          lineWidth, eraserWidth, pointerEvents, handMode, other, rendered,
          returned, session>>

\* ------------------------------------------------------- path geometry
\* 'M ' + x + ' ' + y
MoveTo(p) == <<"M", p[1], p[2]>>
\* ' L ' + x + ' ' + y
LineTo(p) == <<"L", p[1], p[2]>>

\* the path data of a polyline through the points pts, in order
PathOf(pts) ==
  [i \in 1..Len(pts) |-> IF i = 1 THEN MoveTo(pts[1]) ELSE LineTo(pts[i])]

\* the svg and the toolbar are displayed from init() or enable() to the next
\* disable(): exactly while the bound references name attached listeners
Displayed == initialized /\ bound

\* x >= 0 && y >= 0 && x <= rect.width && y <= rect.height; the bounding box
\* of an svg that is not displayed is empty
IsWithinBounds(p) ==
  /\ p[1] >= 0
  /\ p[2] >= 0
  /\ p[1] <= (IF Displayed THEN RectWidth ELSE 0)
  /\ p[2] <= (IF Displayed THEN RectHeight ELSE 0)

\* ------------------------------------------------------------ the store
NewStroke(type, element, d, width, timestamp, isTemporary) ==
  [type |-> type, element |-> element, d |-> d, width |-> width,
   timestamp |-> timestamp, isTemporary |-> isTemporary]

\* a filter that drops the committed eraser strokes with the temporary ones;
\* not the code's: C20 tells the two apart
RemoveEveryEraser(s) ==
  SelectSeq(s, LAMBDA st : ~st.isTemporary /\ st.type # "eraser")

\* this.strokes.filter(function(stroke) { return !stroke.isTemporary; })
RemoveTemporary(s) == SelectSeq(s, LAMBDA st : ~st.isTemporary)

\* an insertion that puts st before the elements of equal timestamp, as an
\* unstable sort may; not the code's: C8 tells the two apart
RECURSIVE InsertByTimestampUnstable(_, _)
InsertByTimestampUnstable(s, st) ==
  IF s = <<>> THEN <<st>>
  ELSE IF s[Len(s)].timestamp - st.timestamp < 0 THEN Append(s, st)
  ELSE Append(InsertByTimestampUnstable(SubSeq(s, 1, Len(s) - 1), st), s[Len(s)])

\* insertion of st into the sorted sequence s after every element that does
\* not compare greater (a.timestamp - b.timestamp <= 0): stable
RECURSIVE InsertByTimestamp(_, _)
InsertByTimestamp(s, st) ==
  IF s = <<>> THEN <<st>>
  ELSE IF s[Len(s)].timestamp - st.timestamp <= 0 THEN Append(s, st)
  ELSE Append(InsertByTimestamp(SubSeq(s, 1, Len(s) - 1), st), s[Len(s)])

\* this.strokes.sort(function(a, b) { return a.timestamp - b.timestamp; })
RECURSIVE SortByTimestamp(_)
SortByTimestamp(s) ==
  IF s = <<>> THEN <<>>
  ELSE InsertByTimestamp(SortByTimestamp(SubSeq(s, 1, Len(s) - 1)), s[Len(s)])

\* the partition of the store: type 'pen', and everything else
PenStrokes(s) == SelectSeq(s, LAMBDA st : st.type = "pen")
EraserStrokes(s) == SelectSeq(s, LAMBDA st : st.type # "pen")

\* a filter that takes every eraser, whatever its timestamp; not the code's:
\* C29 tells the two apart
ApplicableErasersAll(erasers, penStroke) == erasers

\* a filter that also takes the erasers of equal timestamp; not the code's:
\* C1 tells the two apart
ApplicableErasersInclusive(erasers, penStroke) ==
  SelectSeq(erasers, LAMBDA e : e.timestamp >= penStroke.timestamp)

\* eraserStrokes.filter(function(eraser) { return eraser.timestamp > penStroke.timestamp; })
ApplicableErasers(erasers, penStroke) ==
  SelectSeq(erasers, LAMBDA e : e.timestamp > penStroke.timestamp)

\* one child of the drawing container: a clone of a pen path, inside a masked
\* group when mask is not empty, or the live pen path itself (live)
PlanEntry(pen, d, live, maskId, mask) ==
  [pen |-> pen, d |-> d, live |-> live, masked |-> mask # <<>>,
   maskId |-> maskId, mask |-> mask]

\* the clone of an eraser path put into a mask:
\* eraserPath.setAttribute('stroke-width', self.eraserWidth.toString())
MaskEntry(e) == [eraser |-> e.element, d |-> e.d, width |-> eraserWidth]

\* 'pen-mask-' + penIndex, penIndex counting from 0; -1 stands for no mask
MaskId(penIndex, mask) == IF mask # <<>> THEN penIndex - 1 ELSE -1

\* the children renderStrokes gives the drawing container for the sorted store s
RenderPlan(s) ==
  LET pens == PenStrokes(s)
      erasers == EraserStrokes(s)
      entry(penIndex) ==
        LET penStroke == pens[penIndex]
            applicable == ApplicableErasers(erasers, penStroke)
            mask == [j \in 1..Len(applicable) |-> MaskEntry(applicable[j])]
        IN PlanEntry(penStroke.element, penStroke.d, FALSE,
                     MaskId(penIndex, mask), mask)
  IN [penIndex \in 1..Len(pens) |-> entry(penIndex)]

\* element.setAttribute('d', data) as seen through the store
SetStrokeData(s, element, data) ==
  [i \in 1..Len(s) |->
     IF s[i].element = element THEN [s[i] EXCEPT !.d = data] ELSE s[i]]

\* element.setAttribute('d', data) as seen through the drawing container
SetLiveData(dc, element, data) ==
  [i \in 1..Len(dc) |->
     IF dc[i].live /\ dc[i].pen = element THEN [dc[i] EXCEPT !.d = data]
     ELSE dc[i]]

\* ------------------------------------------- the handlers, on the fields
\* The fields of the instance a handler reads and writes.  A handler maps
\* the record of these fields to the record it leaves behind; rendered counts
\* the renderStrokes calls made since the event arrived.
This ==
  [isDrawing |-> isDrawing, currentPath |-> currentPath,
   currentPathData |-> currentPathData,
   currentPathWidth |-> currentPathWidth, strokes |-> strokes,
   temporaryEraserStroke |-> temporaryEraserStroke, nextId |-> nextId,
   eraserIndicator |-> eraserIndicator, drawingContainer |-> drawingContainer,
   rendered |-> 0]

\* this.currentPath.setAttribute('d', data) for the path named element
SetAttributeD(m, element, data) ==
  [m EXCEPT !.strokes = SetStrokeData(@, element, data),
            !.drawingContainer = SetLiveData(@, element, data)]

\* a renderStrokes that composes the store in array order without sorting
\* it; not the code's: C30 tells the two apart
RenderStrokesUnsorted(m) ==
  [m EXCEPT !.drawingContainer = RenderPlan(m.strokes),
            !.rendered = @ + 1]

\* renderStrokes()
RenderStrokes(m) ==
  [m EXCEPT !.strokes = SortByTimestamp(@),
            !.drawingContainer = RenderPlan(SortByTimestamp(m.strokes)),
            !.rendered = @ + 1]

\* startDrawing(x, y)
StartDrawing(m, p) ==
  [m EXCEPT !.currentPath = m.nextId,
            !.nextId = @ + 1,
            !.currentPathWidth = lineWidth,
            !.currentPathData = <<MoveTo(p)>>,
            !.drawingContainer =
               Append(@, PlanEntry(m.nextId, <<MoveTo(p)>>, TRUE, -1, <<>>))]

\* the data continueDrawing / continueErasing give the current path
Extended(m, p) == Append(m.currentPathData, LineTo(p))

\* continueDrawing(x, y)
ContinueDrawing(m, p) ==
  IF m.currentPath = NULL THEN m
  ELSE SetAttributeD([m EXCEPT !.currentPathData = Extended(m, p)],
                     m.currentPath, Extended(m, p))

\* the temporary stroke startErasing creates, Date.now() returning t
TemporaryStroke(m, p, t) ==
  NewStroke("eraser", m.nextId, <<MoveTo(p)>>, eraserWidth, t, TRUE)

\* startErasing(x, y), Date.now() returning t
StartErasing(m, p, t) ==
  RenderStrokes([m EXCEPT !.eraserIndicator = TRUE,
                          !.currentPath = m.nextId,
                          !.nextId = @ + 1,
                          !.currentPathWidth = eraserWidth,
                          !.currentPathData = <<MoveTo(p)>>,
                          !.temporaryEraserStroke = m.nextId,
                          !.strokes = Append(@, TemporaryStroke(m, p, t))])

\* a continueErasing that extends the path without rendering; not the code's:
\* C16 tells the two apart
ContinueErasingNoRender(m, p) ==
  IF m.currentPath = NULL THEN m
  ELSE SetAttributeD([m EXCEPT !.eraserIndicator = TRUE,
                               !.currentPathData = Extended(m, p)],
                     m.currentPath, Extended(m, p))

\* continueErasing(x, y)
ContinueErasing(m, p) ==
  IF m.currentPath = NULL THEN m
  ELSE LET moved == SetAttributeD([m EXCEPT !.eraserIndicator = TRUE,
                                            !.currentPathData = Extended(m, p)],
                                  m.currentPath, Extended(m, p))
       IN IF m.temporaryEraserStroke # NULL
          THEN RenderStrokes(SetAttributeD(moved, m.temporaryEraserStroke,
                                           Extended(m, p)))
          ELSE moved

\* a completed stroke that carries the clock of the pointer-down instead of
\* the one read at the end; not the code's: C3 tells the two apart
CompletedStrokeAtStart(m, t) ==
  NewStroke(currentTool, m.currentPath, m.currentPathData, m.currentPathWidth,
            now, FALSE)

\* the completed stroke handleDrawEnd pushes, Date.now() returning t
CompletedStroke(m, t) ==
  NewStroke(currentTool, m.currentPath, m.currentPathData, m.currentPathWidth,
            t, FALSE)

\* the store before the push: temporary strokes are filtered out when
\* this.temporaryEraserStroke is set
WithoutTemporary(m) ==
  IF m.temporaryEraserStroke # NULL THEN RemoveTemporary(m.strokes) ELSE m.strokes

\* an end handler that leaves the drawing state but keeps the current path;
\* not the code's: C36 tells the two apart
HandleDrawEndKeepsPath(m, t) ==
  IF ~m.isDrawing THEN m
  ELSE [m EXCEPT !.isDrawing = FALSE, !.eraserIndicator = FALSE]

\* an end handler that commits but stays in the drawing state; not the
\* code's: C5 tells the two apart
HandleDrawEndStaysDrawing(m, t) ==
  IF ~m.isDrawing \/ m.currentPath = NULL THEN m
  ELSE [m EXCEPT !.strokes = SortByTimestamp(Append(WithoutTemporary(m),
                     NewStroke(currentTool, m.currentPath, m.currentPathData,
                               m.currentPathWidth, t, FALSE))),
                 !.temporaryEraserStroke = NULL,
                 !.rendered = @ + 1]

\* handleDrawEnd(), Date.now() returning t
HandleDrawEnd(m, t) ==
  IF ~m.isDrawing THEN m
  ELSE LET pushed ==
             IF m.currentPath # NULL
             THEN RenderStrokes(
                    [m EXCEPT !.strokes = Append(WithoutTemporary(m),
                                                 CompletedStroke(m, t)),
                              !.temporaryEraserStroke = NULL])
             ELSE m
       IN [pushed EXCEPT !.isDrawing = FALSE,
                         !.currentPath = NULL,
                         !.currentPathWidth = NULL,
                         !.eraserIndicator = FALSE]

\* handleDrawStart(event) for a mousedown at p
HandleDrawStart(m, p, t) ==
  IF currentTool = "hand" THEN m
  ELSE IF currentTool = "pen"
       THEN StartDrawing([m EXCEPT !.isDrawing = TRUE], p)
       ELSE StartErasing([m EXCEPT !.isDrawing = TRUE], p, t)

\* the end of handleDrawMove and handleTouchMove: the point is taken
DrawMove(m, p) ==
  IF ~m.isDrawing THEN m
  ELSE IF currentTool = "pen" THEN ContinueDrawing(m, p)
       ELSE ContinueErasing(m, p)

\* an indicator shown on every move, whatever the tool; not the code's: C22
\* tells the two apart
ShowIndicatorAlways(m) == [m EXCEPT !.eraserIndicator = TRUE]

\* showEraserIndicator(x, y) when the eraser tool is active
ShowEraserIndicator(m) ==
  IF currentTool = "eraser" THEN [m EXCEPT !.eraserIndicator = TRUE] ELSE m

\* handleDrawMove(event) for a mousemove at p
HandleDrawMove(m, p) ==
  IF currentTool = "hand" THEN m ELSE DrawMove(ShowEraserIndicator(m), p)

\* handleMouseLeave()
HandleMouseLeave(m) ==
  IF currentTool = "eraser" /\ ~m.isDrawing
  THEN [m EXCEPT !.eraserIndicator = FALSE]
  ELSE m

\* handleTouchStart(event): n contacts, the first one at p
HandleTouchStart(m, p, n, t) ==
  IF currentTool = "hand" \/ n # 1 \/ ~IsWithinBounds(p) THEN m
  ELSE HandleDrawStart(m, p, t)

\* handleTouchMove(event): n contacts, the first one at p
HandleTouchMove(m, p, n) ==
  IF currentTool = "hand" \/ n # 1 THEN m
  ELSE IF IsWithinBounds(p) THEN DrawMove(ShowEraserIndicator(m), p)
  ELSE m

\* handleTouchEnd(): the listener of touchend and of touchcancel
HandleTouchEnd(m, t) ==
  IF currentTool = "hand" THEN m ELSE HandleDrawEnd(m, t)

\* listeners whose touchcancel rolls the session back; not the code's: C7
\* tells the two apart
HandlerCancelDiscards(m, name, p, n, t) ==
  CASE name = "mousedown" -> HandleDrawStart(m, p, t)
    [] name = "mousemove" -> HandleDrawMove(m, p)
    [] name = "mouseleave" -> HandleMouseLeave(m)
    [] name = "mouseup" -> HandleDrawEnd(m, t)
    [] name = "touchstart" -> HandleTouchStart(m, p, n, t)
    [] name = "touchmove" -> HandleTouchMove(m, p, n)
    [] name = "touchend" -> HandleTouchEnd(m, t)
    [] OTHER -> [m EXCEPT !.isDrawing = FALSE, !.currentPath = NULL,
                          !.currentPathWidth = NULL,
                          !.strokes = RemoveTemporary(@),
                          !.temporaryEraserStroke = NULL]

\* the handler the listener of the event name invokes
Handler(m, name, p, n, t) ==
  CASE name = "mousedown" -> HandleDrawStart(m, p, t)
    [] name = "mousemove" -> HandleDrawMove(m, p)
    [] name = "mouseleave" -> HandleMouseLeave(m)
    [] name = "mouseup" -> HandleDrawEnd(m, t)
    [] name = "touchstart" -> HandleTouchStart(m, p, n, t)
    [] name = "touchmove" -> HandleTouchMove(m, p, n)
    [] OTHER -> HandleTouchEnd(m, t)

\* --------------------------------------------------------- history only
\* The input session as the pointer delivered it, kept from an accepted
\* pointer-down until a call other than an input event arrives.  It records
\* events, not handler invocations.
\* active:   a pointer-down was accepted and no end signal has followed
\* touch:    that pointer-down was a touchstart
\* start:    the clock at that pointer-down
\* count:    the samples of the session the handler has taken
\* multi:    an event with more than one contact came while sampling
\* last:     the end signal delivered last ("" while active)
\* repeated: that end signal followed another end signal
NoSession == [active |-> FALSE, touch |-> FALSE, start |-> 0, count |-> 0,
              multi |-> FALSE, last |-> "", repeated |-> FALSE]
BeginSession(name, t) ==
  [NoSession EXCEPT !.active = TRUE, !.touch = (name = "touchstart"),
                    !.start = t, !.count = 1]
Sampled == IF session.active THEN [session EXCEPT !.count = @ + 1] ELSE NoSession
MultiTouch == IF session.active THEN [session EXCEPT !.multi = TRUE] ELSE NoSession
Passive == IF session.active THEN session ELSE NoSession
EndSession(name) ==
  IF session.active THEN [NoSession EXCEPT !.start = session.start, !.last = name]
  ELSE IF session.last # "" THEN [session EXCEPT !.last = name, !.repeated = TRUE]
  ELSE NoSession

\* the session after the event name with n contacts at time t, whose first
\* listener left the fields first
Delivered(name, n, t, first) ==
  CASE name \in {"mousedown", "touchstart"} ->
         IF first.nextId # nextId THEN BeginSession(name, t)
         ELSE IF n # 1 THEN MultiTouch ELSE Passive
    [] name \in {"mousemove", "touchmove"} ->
         IF first.currentPathData # currentPathData THEN Sampled
         ELSE IF n # 1 THEN MultiTouch ELSE Passive
    [] name = "mouseleave" -> Passive
    [] OTHER -> EndSession(name)

\* the samples of the session, in delivery order
SessionPoints == [i \in 1..session.count |-> SamplePoint(i)]
\* the sample the pointer delivers next: it moves on along the trajectory
\* with every sample the current path has taken
NextSample == SamplePoint(IF currentPath # NULL THEN Len(currentPathData) + 1 ELSE 1)

\* ------------------------------------------------------------ the machine
\* the fields of an instance the constructor leaves: new PenTool(options)
Constructed ==
  [initialized |-> FALSE, isEnabled |-> TRUE, bound |-> FALSE,
   leaked |-> "none", currentTool |-> "pen", isDrawing |-> FALSE,
   currentPath |-> NULL, currentPathData |-> <<>>, currentPathWidth |-> NULL,
   strokes |-> <<>>, temporaryEraserStroke |-> NULL, nextId |-> 1,
   eraserIndicator |-> FALSE, drawingContainer |-> <<>>,
   lineWidth |-> DefaultLineWidth, eraserWidth |-> DefaultEraserWidth,
   pointerEvents |-> "none", handMode |-> FALSE]

Init ==
  /\ initialized = FALSE
  /\ isEnabled = TRUE
  /\ bound = FALSE
  /\ leaked = "none"
  /\ currentTool = "pen"
  /\ isDrawing = FALSE
  /\ currentPath = NULL
  /\ currentPathData = <<>>
  /\ currentPathWidth = NULL
  /\ strokes = <<>>
  /\ temporaryEraserStroke = NULL
  /\ nextId = 1
  /\ eraserIndicator = FALSE
  /\ drawingContainer = <<>>
  /\ now = 0
  /\ lineWidth = DefaultLineWidth
  /\ eraserWidth = DefaultEraserWidth
  /\ pointerEvents = "none"
  /\ handMode = FALSE
  /\ other = Constructed
  /\ rendered = 0
  /\ returned = <<>>
  /\ session = NoSession

lifecycle == <<initialized, isEnabled, bound, leaked>>
store == <<strokes, temporaryEraserStroke, nextId, drawingContainer>>
pointer == <<isDrawing, currentPath, currentPathData, currentPathWidth>>
style == <<lineWidth, eraserWidth>>
capture == <<pointerEvents, handMode>>

\* the end of handleToolSelect and of setActiveTool: the svg captures pointer
\* events for the drawing tools, the target element is in hand mode for the
\* hand tool
ConfigureCapture(toolName) ==
  /\ pointerEvents' = IF toolName = "hand" THEN "none" ELSE "auto"
  /\ handMode' = (toolName = "hand")

\* the fields take the values a handler left in m
Becomes(m) ==
  /\ isDrawing' = m.isDrawing
  /\ currentPath' = m.currentPath
  /\ currentPathData' = m.currentPathData
  /\ currentPathWidth' = m.currentPathWidth
  /\ strokes' = m.strokes
  /\ temporaryEraserStroke' = m.temporaryEraserStroke
  /\ nextId' = m.nextId
  /\ eraserIndicator' = m.eraserIndicator
  /\ drawingContainer' = m.drawingContainer
  /\ rendered' = m.rendered

\* The number of times the handler of the event name runs.  While the svg
\* is displayed the event reaches the listeners on the svg: the bound set and
\* a leaked set that is attached to it (a handler that takes a touch stops
\* its propagation to the outer targets).  While it is not, no mouse event
\* reaches the svg; touch events reach a leaked listener on the target
\* element, end events one on the window.
Listeners(name) ==
  IF Displayed THEN (IF leaked = "svg" THEN 2 ELSE 1)
  ELSE IF /\ initialized
          /\ leaked # "none"
          /\ name \notin {"mousedown", "mousemove", "mouseleave"}
       THEN 1
       ELSE 0

\* The events that reach a listener of the instance after destroy(): a leaked
\* set stays attached to the target element (touchstart, touchmove), the
\* document (touchmove) and the window (mouseup, touchmove, touchend,
\* touchcancel); destroy() leaves the fields as the handlers' early returns
\* need them, so that these listeners change nothing.
ReachesAfterDestroy(name) ==
  /\ ~initialized
  /\ leaked # "none"
  /\ name \notin {"mousedown", "mousemove", "mouseleave"}

\* handleTouchStart and handleTouchMove throw a TypeError at
\* this.svg.getBoundingClientRect() when this.svg is null
HandlerThrows(name, n) ==
  /\ ~initialized
  /\ name \in {"touchstart", "touchmove"}
  /\ currentTool # "hand"
  /\ n = 1

\* an event whose first listener leaves the fields first begins or ends a
\* session: the clock is observed then
Observes(first) == first.nextId # nextId \/ first.isDrawing # isDrawing

\* the event name arrives with n contacts, the first one at p, at time t
Dispatch(name, p, n, t) ==
  /\ Listeners(name) > 0
  /\ \E first \in {Handler(This, name, p, n, t)} :
       \E last \in {IF Listeners(name) = 2 THEN Handler(first, name, p, n, t)
                    ELSE first} :
         /\ last.nextId <= MaxElems + 1
         /\ first.currentPathData # currentPathData =>
              Len(first.currentPathData) <= MaxPathLen
         /\ t # now => Observes(first)
         /\ now' = t
         /\ Becomes(last)
         /\ session' = Delivered(name, n, t, first)
  /\ UNCHANGED <<lifecycle, currentTool, style, other, capture>>
  /\ returned' = <<>>

\* the events of the page
MouseDown(t) == Dispatch("mousedown", SamplePoint(1), 1, t)
MouseMove == Dispatch("mousemove", NextSample, 1, now)
MouseLeave == Dispatch("mouseleave", NextSample, 1, now)
MouseUp(t) == Dispatch("mouseup", NextSample, 1, t)
TouchStart(p, n, t) == Dispatch("touchstart", p, n, t)
TouchMove(p, n) == Dispatch("touchmove", p, n, now)
TouchEnd(t) == Dispatch("touchend", NextSample, 0, t)
TouchCancel(t) == Dispatch("touchcancel", NextSample, 0, t)

\* addEventListeners(): the bound references are overwritten, the set they
\* named stays attached
AddEventListeners ==
  /\ leaked' = IF bound THEN "svg" ELSE leaked
  /\ bound' = TRUE

\* removeEventListeners(): removes the set the bound references name
RemoveEventListeners ==
  /\ bound' = FALSE
  /\ UNCHANGED leaked

\* init()
InitTool ==
  /\ rendered' = 0
  /\ IF initialized
     THEN UNCHANGED <<lifecycle, drawingContainer>>
     ELSE /\ initialized' = TRUE
          /\ drawingContainer' = <<>>
          /\ AddEventListeners
          /\ UNCHANGED isEnabled
  /\ session' = NoSession
  /\ UNCHANGED <<style, other>>
  /\ pointerEvents' = IF initialized THEN pointerEvents ELSE "auto"
  /\ UNCHANGED handMode
  /\ returned' = <<>>
  /\ UNCHANGED <<currentTool, pointer, strokes, temporaryEraserStroke, nextId,
                 eraserIndicator, now>>

\* handleToolSelect(): click on the pen, eraser or hand button of the toolbar
HandleToolSelect(toolName) ==
  /\ Displayed
  /\ rendered' = 0
  /\ currentTool' = toolName
  /\ eraserIndicator' = IF toolName # "eraser" THEN FALSE ELSE eraserIndicator
  /\ session' = NoSession
  /\ UNCHANGED <<style, other>>
  /\ ConfigureCapture(toolName)
  /\ returned' = <<>>
  /\ UNCHANGED <<lifecycle, pointer, store, now>>

\* getCurrentTool()
GetCurrentTool == currentTool

\* a setActiveTool that does not look at isEnabled; not the code's: C23 tells
\* the two apart
SetActiveToolWhenDisabled(toolName) ==
  /\ rendered' = 0
  /\ IF toolName \notin Tools
     THEN UNCHANGED <<currentTool, eraserIndicator>>
     ELSE /\ currentTool' = toolName
          /\ eraserIndicator' =
               IF initialized /\ toolName # "eraser" THEN FALSE ELSE eraserIndicator
  /\ session' = NoSession
  /\ UNCHANGED <<style, other>>
  /\ IF toolName \in Tools /\ initialized
     THEN ConfigureCapture(toolName)
     ELSE UNCHANGED capture
  /\ returned' = <<>>
  /\ UNCHANGED <<lifecycle, pointer, store, now>>

\* setActiveTool(toolName), switchToPenTool(), switchToEraserTool(),
\* switchToHandTool()
SetActiveTool(toolName) ==
  /\ rendered' = 0
  /\ IF ~isEnabled \/ toolName \notin Tools
     THEN UNCHANGED <<currentTool, eraserIndicator>>
     ELSE /\ currentTool' = toolName
          /\ eraserIndicator' =
               IF initialized /\ toolName # "eraser" THEN FALSE ELSE eraserIndicator
  /\ session' = NoSession
  /\ UNCHANGED <<style, other>>
  /\ IF isEnabled /\ toolName \in Tools /\ initialized
     THEN ConfigureCapture(toolName)
     ELSE UNCHANGED capture
  /\ returned' = <<>>
  /\ UNCHANGED <<lifecycle, pointer, store, now>>

\* clearAll() throws a TypeError at this.drawingContainer.firstChild when the
\* tool is not initialized
ClearAllThrows == ~initialized

\* a clearAll() that empties the store but leaves the painted output; not the
\* code's: C12 tells the two apart
ClearAllKeepsPaint ==
  /\ rendered' = 0
  /\ strokes' = IF initialized THEN <<>> ELSE strokes
  /\ session' = NoSession
  /\ UNCHANGED <<style, other, capture>>
  /\ returned' = <<>>
  /\ UNCHANGED <<lifecycle, currentTool, pointer, temporaryEraserStroke, nextId,
                 now, drawingContainer, eraserIndicator>>

\* clearAll(), eraseAll(), click on the clear button of the toolbar
ClearAll ==
  /\ rendered' = 0
  /\ IF ~initialized
     THEN UNCHANGED <<strokes, drawingContainer, eraserIndicator>>
     ELSE /\ strokes' = <<>>
          /\ drawingContainer' = <<>>
          /\ eraserIndicator' = FALSE
  /\ session' = NoSession
  /\ UNCHANGED <<style, other, capture>>
  /\ returned' = <<>>
  /\ UNCHANGED <<lifecycle, currentTool, pointer, temporaryEraserStroke, nextId,
                 now>>

\* enable()
EnableCall ==
  /\ rendered' = 0
  /\ IF ~initialized
     THEN UNCHANGED <<isEnabled, bound, leaked>>
     ELSE isEnabled' = TRUE /\ AddEventListeners
  /\ session' = NoSession
  /\ UNCHANGED <<style, other>>
  /\ pointerEvents' = IF ~initialized THEN pointerEvents
                      ELSE IF currentTool = "hand" THEN "none" ELSE "auto"
  /\ UNCHANGED handMode
  /\ UNCHANGED <<initialized, currentTool, pointer, store, eraserIndicator, now>>

Enable == EnableCall /\ returned' = <<>>

\* disable()
DisableCall ==
  /\ rendered' = 0
  /\ IF ~initialized
     THEN UNCHANGED <<isEnabled, bound, leaked, isDrawing, currentPath,
                      currentPathWidth, eraserIndicator>>
     ELSE /\ isEnabled' = FALSE
          /\ isDrawing' = FALSE
          /\ currentPath' = NULL
          /\ currentPathWidth' = NULL
          /\ eraserIndicator' = FALSE
          /\ RemoveEventListeners
  /\ session' = NoSession
  /\ UNCHANGED <<style, other>>
  /\ pointerEvents' = IF ~initialized THEN pointerEvents ELSE "none"
  /\ UNCHANGED handMode
  /\ UNCHANGED <<initialized, currentTool, currentPathData, store, now>>

Disable == DisableCall /\ returned' = <<>>

\* a toggle() that disables whatever the state; not the code's: C24 tells the
\* two apart
ToggleAlwaysDisables ==
  /\ DisableCall
  /\ returned' = <<isEnabled, isEnabled'>>

\* toggle(): returns this.isEnabled as the call it made left it
Toggle ==
  /\ IF isEnabled THEN DisableCall ELSE EnableCall
  /\ returned' = <<isEnabled, isEnabled'>>

\* destroy(): the svg leaves the document, and a leaked listener on it with it
Destroy ==
  /\ rendered' = 0
  /\ bound' = FALSE
  /\ leaked' = IF leaked = "none" THEN "none" ELSE "window"
  /\ initialized' = FALSE
  /\ drawingContainer' = <<>>
  /\ eraserIndicator' = FALSE
  /\ currentPath' = NULL
  /\ currentPathWidth' = NULL
  /\ strokes' = <<>>
  /\ temporaryEraserStroke' = NULL
  /\ isDrawing' = FALSE
  /\ currentPathData' = <<>>
  /\ isEnabled' = FALSE
  /\ currentTool' = "pen"
  /\ session' = NoSession
  /\ UNCHANGED <<style, other>>
  /\ pointerEvents' = "none"
  /\ handMode' = FALSE
  /\ returned' = <<>>
  /\ UNCHANGED <<nextId, now>>

\* updateOptions({lineWidth: lw, eraserWidth: ew}); NULL stands for an option
\* that is not given
UpdateOptions(lw, ew) ==
  /\ rendered' = 0
  /\ lineWidth' = IF lw # NULL THEN lw ELSE lineWidth
  /\ eraserWidth' = IF ew # NULL THEN ew ELSE eraserWidth
  /\ session' = IF session.active THEN session ELSE NoSession
  /\ UNCHANGED <<lifecycle, currentTool, pointer, store, eraserIndicator, now,
                 other, capture>>
  /\ returned' = <<>>

\* the values the next reading of Date.now() can return
Clock == {now, now + 1} \cap (0..MaxClock)

\* some input event arrives
InputEvent ==
  \/ \E t \in Clock : MouseDown(t)
  \/ MouseMove
  \/ MouseLeave
  \/ \E t \in Clock : MouseUp(t)
  \/ \E n \in TouchCounts, t \in Clock : TouchStart(SamplePoint(1), n, t)
  \/ TouchStart(OutPoint, 1, now)
  \/ \E n \in TouchCounts : TouchMove(NextSample, n)
  \/ TouchMove(OutPoint, 1)
  \/ \E t \in Clock : TouchEnd(t)
  \/ \E t \in Clock : TouchCancel(t)

Next ==
  \/ InitTool
  \/ InputEvent
  \/ \E toolName \in Tools : HandleToolSelect(toolName)
  \/ \E toolName \in ToolNames : SetActiveTool(toolName)
  \/ ClearAll
  \/ Enable
  \/ Disable
  \/ Toggle
  \/ Destroy

\* The tool with the options it was constructed with.  updateOptions writes
\* lineWidth (lineColor) and eraserWidth only, and these are read only to set
\* 'stroke-width' (and 'stroke') attributes: SpecStyle follows them.
Spec == Init /\ [][Next]_vars

\* the drawing operations of an initialized tool, with updateOptions
NextStyle ==
  \/ InitTool
  \/ \E t \in Clock : MouseDown(t)
  \/ MouseMove
  \/ \E t \in Clock : MouseUp(t)
  \/ \E toolName \in Tools : HandleToolSelect(toolName)
  \/ \E lw \in LineWidths \cup {NULL}, ew \in EraserWidths \cup {NULL} :
       UpdateOptions(lw, ew)

SpecStyle == Init /\ [][NextStyle]_vars

\* Two instances in one document.  The variables of the fields are those of
\* the instance the next call or event goes to; other holds the second one.
\* the fields of this instance, as a record
Instance ==
  [initialized |-> initialized, isEnabled |-> isEnabled, bound |-> bound,
   leaked |-> leaked, currentTool |-> currentTool, isDrawing |-> isDrawing,
   currentPath |-> currentPath, currentPathData |-> currentPathData,
   currentPathWidth |-> currentPathWidth, strokes |-> strokes,
   temporaryEraserStroke |-> temporaryEraserStroke, nextId |-> nextId,
   eraserIndicator |-> eraserIndicator, drawingContainer |-> drawingContainer,
   lineWidth |-> lineWidth, eraserWidth |-> eraserWidth,
   pointerEvents |-> pointerEvents, handMode |-> handMode]

\* the user turns to the other instance: the calls and events that follow go
\* to it.  The mouse is one pointer, and a mouseup reaches the window
\* listeners of both instances: the one left behind is not in a session, so
\* that its handleDrawEnd returns at once.
TurnToOther ==
  /\ ~isDrawing
  /\ other' = Instance
  /\ initialized' = other.initialized
  /\ isEnabled' = other.isEnabled
  /\ bound' = other.bound
  /\ leaked' = other.leaked
  /\ currentTool' = other.currentTool
  /\ isDrawing' = other.isDrawing
  /\ currentPath' = other.currentPath
  /\ currentPathData' = other.currentPathData
  /\ currentPathWidth' = other.currentPathWidth
  /\ strokes' = other.strokes
  /\ temporaryEraserStroke' = other.temporaryEraserStroke
  /\ nextId' = other.nextId
  /\ eraserIndicator' = other.eraserIndicator
  /\ drawingContainer' = other.drawingContainer
  /\ lineWidth' = other.lineWidth
  /\ eraserWidth' = other.eraserWidth
  /\ pointerEvents' = other.pointerEvents
  /\ handMode' = other.handMode
  /\ rendered' = 0
  /\ session' = NoSession
  /\ UNCHANGED now
  /\ returned' = <<>>

\* drawing and erasing with the mouse on two instances
NextDocument ==
  \/ InitTool
  \/ \E t \in Clock : MouseDown(t)
  \/ MouseMove
  \/ \E t \in Clock : MouseUp(t)
  \/ \E toolName \in {"pen", "eraser"} : HandleToolSelect(toolName)
  \/ TurnToOther

SpecDocument == Init /\ [][NextDocument]_vars

\* the mask elements renderStrokes left in the defs of an svg whose drawing
\* container holds dc: mask.id = 'pen-mask-' + penIndex
Defs(dc) ==
  {[id |-> dc[k].maskId, mask |-> dc[k].mask] : k \in {i \in 1..Len(dc) : dc[i].masked}}

\* the mask elements of the document with the given id: the svg of an
\* instance is in the document from init() to destroy()
MasksById(id) ==
  {e \in (IF initialized THEN Defs(drawingContainer) ELSE {})
         \cup (IF other.initialized THEN Defs(other.drawingContainer) ELSE {}) :
     e.id = id}

\* renderStrokes() on its own.  The sort of renderStrokes reorders the array
\* only when a pushed timestamp is below a stored one, which the clock of
\* Spec never produces: here it is called on every array of committed
\* strokes up to MaxStore, sorted or not, the element numbers giving the
\* insertion order.
\* the arrays of the given length ending in a stroke of each kind and time
RECURSIVE Arrays(_)
Arrays(len) ==
  IF len = 0 THEN {<<>>}
  ELSE {Append(s, NewStroke(type, len, <<MoveTo(SamplePoint(1))>>,
                            IF type = "pen" THEN DefaultLineWidth
                            ELSE DefaultEraserWidth, t, FALSE)) :
          s \in Arrays(len - 1), type \in {"pen", "eraser"}, t \in 0..MaxClock}

\* an initialized tool whose store is any such array
InitSort ==
  /\ initialized = TRUE
  /\ isEnabled = TRUE
  /\ bound = TRUE
  /\ leaked = "none"
  /\ currentTool = "pen"
  /\ isDrawing = FALSE
  /\ currentPath = NULL
  /\ currentPathData = <<>>
  /\ currentPathWidth = NULL
  /\ \E len \in 0..MaxStore : strokes \in Arrays(len) /\ nextId = len + 1
  /\ temporaryEraserStroke = NULL
  /\ eraserIndicator = FALSE
  /\ drawingContainer = <<>>
  /\ now = MaxClock
  /\ lineWidth = DefaultLineWidth
  /\ eraserWidth = DefaultEraserWidth
  /\ pointerEvents = "auto"
  /\ handMode = FALSE
  /\ other = Constructed
  /\ rendered = 0
  /\ returned = <<>>
  /\ session = NoSession

\* a call of renderStrokes()
Render ==
  /\ Becomes(RenderStrokes(This))
  /\ session' = NoSession
  /\ returned' = <<>>
  /\ UNCHANGED <<lifecycle, currentTool, now, style, other, capture>>

NextSort == Render

SpecSort == InitSort /\ [][NextSort]_vars

\* ------------------------------------------------------------ properties
\* the committed strokes of the store s, in store order
Committed(s) == SelectSeq(s, LAMBDA st : ~st.isTemporary)
\* the positions of the store that hold pen strokes
PenIndices == {i \in 1..Len(strokes) : strokes[i].type = "pen"}
\* the children of the container renderStrokes emitted for the path element
EntriesOf(element) ==
  {k \in 1..Len(drawingContainer) :
     ~drawingContainer[k].live /\ drawingContainer[k].pen = element}
\* the clones in the mask of the child k
MaskOf(k) ==
  {drawingContainer[k].mask[x] : x \in DOMAIN drawingContainer[k].mask}
\* the positions of the strokes the compositor takes for erasers (every type
\* but 'pen') whose timestamp is greater than that of the stroke at i
LaterErasers(i) ==
  {j \in 1..Len(strokes) :
     strokes[j].type # "pen" /\ strokes[j].timestamp > strokes[i].timestamp}
\* the eraser stroke at j is in the mask of the pen stroke at i
Masks(j, i) ==
  \E k \in EntriesOf(strokes[i].element) :
    \E c \in MaskOf(k) : c.eraser = strokes[j].element
\* an end signal ends the session in progress
EndArrives == session.active /\ session'.last # ""
\* an end signal follows another end signal
EndRepeats == session.last # "" /\ session'.last # ""

\* C1 (temporal masking law): after every renderStrokes, each pen stroke of
\* the store has exactly one child in the container, with its geometry
\* verbatim; an eraser stroke is in its mask iff the eraser's timestamp is
\* greater than the pen's; the child is unmasked when there is no such eraser
\* and is one masked group holding exactly those erasers otherwise.
C1_TemporalMaskingLaw ==
  rendered > 0 =>
    \A i \in PenIndices :
      /\ Cardinality(EntriesOf(strokes[i].element)) = 1
      /\ \A k \in EntriesOf(strokes[i].element) :
           /\ drawingContainer[k].d = strokes[i].d
           /\ drawingContainer[k].masked <=> LaterErasers(i) # {}
           /\ drawingContainer[k].masked <=> drawingContainer[k].maskId >= 0
           /\ MaskOf(k) = {MaskEntry(strokes[j]) : j \in LaterErasers(i)}
           /\ Len(drawingContainer[k].mask) = Cardinality(LaterErasers(i))
           /\ \A j \in 1..Len(strokes) :
                strokes[j].type # "pen" =>
                  (Masks(j, i) <=> strokes[j].timestamp > strokes[i].timestamp)
\* a render that emitted a pen stroke masked by a committed eraser stroke
C1_Witness ==
  /\ rendered > 0
  /\ \E i \in PenIndices : \E j \in LaterErasers(i) :
       /\ ~strokes[j].isTemporary
       /\ Masks(j, i)
  /\ \E k \in 1..Len(drawingContainer) : drawingContainer[k].masked

\* C2 (masking follows creation order): after every renderStrokes, a committed
\* eraser stroke masks exactly the pen strokes whose path was created before
\* its own, also when the clock readings are equal.
C2_MaskingFollowsCreationOrder ==
  rendered > 0 =>
    \A i \in PenIndices : \A j \in 1..Len(strokes) :
      (strokes[j].type = "eraser" /\ ~strokes[j].isTemporary) =>
        (Masks(j, i) <=> strokes[i].element < strokes[j].element)

Kept(j) ==
  \E i \in 1..Len(strokes) :
    /\ strokes[i].element = strokes'[j].element
    /\ strokes[i].type = strokes'[j].type
    /\ strokes[i].timestamp = strokes'[j].timestamp
    /\ strokes[i].isTemporary = strokes'[j].isTemporary
C4_SingleLiveStroke ==
  Cardinality({i \in 1..Len(strokes) : strokes[i].isTemporary}) <= 1

\* C5 (a session end commits exactly once): the end signal that ends a
\* session adds exactly one committed stroke, renders once and leaves the
\* machine idle; an end signal that follows another end signal leaves the
\* store, isDrawing and currentPath unchanged and does not render.
C5_EndCommitsOnce ==
  [][/\ EndArrives =>
          /\ Len(Committed(strokes')) = Len(Committed(strokes)) + 1
          /\ rendered' = 1
          /\ ~isDrawing'
          /\ currentPath' = NULL
     /\ EndRepeats =>
          /\ UNCHANGED <<strokes, isDrawing, currentPath>>
          /\ rendered' = 0]_vars
\* a session that got a touchcancel after another end signal
C5_Witness ==
  /\ session.repeated
  /\ session.last = "touchcancel"
  /\ Committed(strokes) # <<>>
  /\ ~isDrawing

\* C6 (pen session geometry is exact): with the pen tool, the end signal that
\* ends a session of pointer-down p0 and moves p1..pn adds exactly one
\* committed pen stroke, whose geometry is M p0 followed by L pi for each
\* move, in delivery order, no point lost and none duplicated.
C6_PenGeometryExact ==
  [][(EndArrives /\ currentTool = "pen") =>
       /\ Len(Committed(strokes')) = Len(Committed(strokes)) + 1
       /\ \E j \in 1..Len(strokes') :
            strokes'[j] = NewStroke("pen", currentPath, PathOf(SessionPoints),
                                    lineWidth, now', FALSE)]_vars

\* the path data d starts at the first of the points pts and has a line to
\* each of the others
ContainsPoints(d, pts) ==
  /\ d # <<>>
  /\ d[1] = MoveTo(pts[1])
  /\ \A i \in 2..Len(pts) : \E x \in 2..Len(d) : d[x] = LineTo(pts[i])
\* C7 (cancel preserves partial work): a touchcancel that ends a session
\* leaves its stroke committed in the store, with the start point and every
\* point the session was extended by, and leaves the machine idle; the store
\* is the one a normal end (handleDrawEnd) leaves.
C7_CancelPreservesWork ==
  [][(session.active /\ session'.last = "touchcancel") =>
       /\ ~isDrawing'
       /\ currentPath' = NULL
       /\ strokes' = HandleDrawEnd(This, now').strokes
       /\ \E j \in 1..Len(strokes') :
            /\ strokes'[j].element = currentPath
            /\ ~strokes'[j].isTemporary
            /\ strokes'[j].d = currentPathData
            /\ ContainsPoints(strokes'[j].d, SessionPoints)]_vars
\* a session extended by a point and ended by touchcancel, its stroke committed
C7_Witness ==
  /\ session.last = "touchcancel"
  /\ ~session.repeated
  /\ \E j \in 1..Len(strokes) :
       /\ strokes[j].element = nextId - 1
       /\ ~strokes[j].isTemporary
       /\ Len(strokes[j].d) >= 2

\* the path elements of the pen strokes of the store s, in store order
PenOrder(s) ==
  [i \in 1..Len(PenStrokes(s)) |-> PenStrokes(s)[i].element]
\* the path elements of the pen strokes renderStrokes emitted, in paint order
PlanOrder(dc) ==
  LET emitted == SelectSeq(dc, LAMBDA e : ~e.live)
  IN [k \in 1..Len(emitted) |-> emitted[k].pen]
C9_HandIgnoresInput ==
  [][(currentTool = "hand" /\ InputEvent) =>
       UNCHANGED <<strokes, isDrawing, currentPath, temporaryEraserStroke>>]_vars

\* C10 (multi-touch abort): a touch event with more than one contact that
\* arrives while a touch session is sampling leaves the machine idle, and no
\* later event of the session commits a stroke.
C10_MultiTouchAborts ==
  [][/\ (session'.active /\ session'.touch /\ session'.multi) =>
          (~isDrawing' /\ currentPath' = NULL)
     /\ (session.active /\ session.touch /\ session.multi) =>
          Len(Committed(strokes')) <= Len(Committed(strokes))]_vars

\* C11 (clearing during a session terminates the live stroke): clearAll() on
\* an initialized tool leaves the machine idle with no live stroke: isDrawing
\* false, currentPath null, temporaryEraserStroke null.
C11_ClearTerminatesSession ==
  [][(initialized /\ ClearAll) =>
       (~isDrawing' /\ currentPath' = NULL /\ temporaryEraserStroke' = NULL)]_vars

\* the state clearAll() leaves: empty store, nothing painted, no indicator
Cleared == strokes = <<>> /\ drawingContainer = <<>> /\ ~eraserIndicator
\* C12 (idempotent clear): on an initialized idle tool clearAll() does not
\* throw and leaves the store empty, the drawing container empty and no
\* eraser indicator; a clearAll() in the state a clearAll() leaves changes no
\* field of the tool.
C12_IdempotentClear ==
  [][(initialized /\ ~isDrawing /\ ClearAll) =>
       /\ ~ClearAllThrows
       /\ Cleared'
       /\ Cleared =>
            UNCHANGED <<lifecycle, currentTool, pointer, store, eraserIndicator, now>>]_vars
\* an idle tool cleared after an eraser session was abandoned: only clearAll()
\* empties the store and keeps the reference to the temporary stroke
C12_Witness ==
  /\ initialized /\ ~isDrawing
  /\ Cleared
  /\ temporaryEraserStroke # NULL

\* C13 (style is snapshotted at stroke start): after every renderStrokes each
\* eraser clone in a mask has the width its stroke's path was created with at
\* its pointer-down, whatever updateOptions was called with since.  (A pen
\* clone carries the attributes of its path, which nothing rewrites.)
C13_StyleSnapshot ==
  rendered > 0 =>
    \A k \in 1..Len(drawingContainer) : \A c \in MaskOf(k) :
      \A j \in 1..Len(strokes) :
        strokes[j].element = c.eraser => c.width = strokes[j].width

\* the tool that was selected at the pointer-down that created the path of
\* the stroke st: startDrawing gives the path the line width, startErasing
\* the eraser width
ToolAtPointerDown(st) == IF st.width \in LineWidths THEN "pen" ELSE "eraser"
\* C14 (a stroke's kind is fixed at session start): the type of every
\* committed stroke is the tool that was selected at its pointer-down.
C14_KindFixedAtStart ==
  \A j \in 1..Len(strokes) :
    ~strokes[j].isTemporary => strokes[j].type = ToolAtPointerDown(strokes[j])

\* C15 (stroke kinds): every stroke of the store has type pen or eraser, and
\* the compositor takes for erasers only strokes that were not drawn with
\* the pen.
C15_KindsPenOrEraser ==
  /\ \A j \in 1..Len(strokes) : strokes[j].type \in {"pen", "eraser"}
  /\ \A j \in 1..Len(EraserStrokes(strokes)) :
       ToolAtPointerDown(EraserStrokes(strokes)[j]) # "pen"

\* the stroke at j of the store s is masked in the container dc by a clone
\* with the path data d
MaskedWith(s, dc, j, d) ==
  \A i \in 1..Len(s) :
    (s[i].type = "pen" /\ s[i].timestamp < s[j].timestamp) =>
      \E k \in 1..Len(dc) :
        /\ ~dc[k].live /\ dc[k].pen = s[i].element /\ dc[k].masked
        /\ \E x \in DOMAIN dc[k].mask :
             dc[k].mask[x].eraser = s[j].element /\ dc[k].mask[x].d = d
C17_CommitOnlyFlips ==
  [][(EndArrives /\ currentTool = "eraser") =>
       /\ drawingContainer' = drawingContainer
       /\ \E j \in 1..Len(strokes') :
            /\ strokes'[j].element = currentPath
            /\ ~strokes'[j].isTemporary
            /\ strokes'[j].d = currentPathData
            /\ strokes'[j].timestamp = session.start]_vars

\* C18 (instances coexist): the mask a masked group of this instance refers
\* to, 'url(#pen-mask-N)', names no mask element of the document other than
\* the one the same render of the same instance built for it.
C18_InstancesIsolated ==
  \A k \in 1..Len(drawingContainer) :
    drawingContainer[k].masked =>
      \A e \in MasksById(drawingContainer[k].maskId) :
        e.mask = drawingContainer[k].mask

\* the move and end events
StrayEvents == {"mousemove", "touchmove", "mouseup", "touchend", "touchcancel"}
\* the fields the listeners of the event name leave, the event arriving now
\* with n contacts at p
Absorbed(name, p, n) ==
  LET first == Handler(This, name, p, n, now)
      last == IF Listeners(name) = 2 THEN Handler(first, name, p, n, now) ELSE first
  IN /\ last.strokes = strokes
     /\ last.isDrawing = isDrawing
     /\ last.currentPath = currentPath
     /\ last.temporaryEraserStroke = temporaryEraserStroke

\* C19 (stray events are absorbed): while no session is in progress, a move
\* or end event that reaches a listener of the instance leaves the store,
\* isDrawing, currentPath and the temporary eraser stroke as they are, and
\* its handler does not throw.
C19_StrayEventsAbsorbed ==
  ~isDrawing =>
    \A name \in StrayEvents, n \in TouchCounts, p \in {NextSample, OutPoint} :
      /\ Listeners(name) > 0 => Absorbed(name, p, n)
      /\ (Listeners(name) > 0 \/ ReachesAfterDestroy(name)) => ~HandlerThrows(name, n)

\* every committed stroke of the store is in the store after the step, with
\* the same element, geometry, width, kind and timestamp
Persists ==
  \A j \in 1..Len(strokes) :
    ~strokes[j].isTemporary => \E k \in 1..Len(strokes') : strokes'[k] = strokes[j]
\* s is an initial part of t
IsPrefix(s, t) == Len(s) <= Len(t) /\ SubSeq(t, 1, Len(s)) = s
\* the path that stays the current path keeps the commands it has, in the
\* field, in its temporary stroke and in the drawing container
AppendOnly ==
  (currentPath # NULL /\ currentPath' = currentPath) =>
    /\ IsPrefix(currentPathData, currentPathData')
    /\ \A j \in 1..Len(strokes) : \A k \in 1..Len(strokes') :
         (strokes[j].element = currentPath /\ strokes'[k].element = currentPath
          /\ strokes[j].isTemporary /\ strokes'[k].isTemporary)
           => IsPrefix(strokes[j].d, strokes'[k].d)

TapEnds ==
  /\ EndArrives
  /\ session.count = 1
  /\ ~session.multi
  /\ currentTool \in {"pen", "eraser"}
\* the pen stroke of the path element pen is masked in the container dc by a
\* clone of the path element eraser
MaskedBy(dc, pen, eraser) ==
  \E k \in 1..Len(dc) :
    /\ ~dc[k].live /\ dc[k].pen = pen /\ dc[k].masked
    /\ \E x \in DOMAIN dc[k].mask : dc[k].mask[x].eraser = eraser

\* C21 (degenerate strokes are preserved): a tap with the pen or the eraser
\* adds exactly one committed stroke, of the tool's kind, holding the single
\* point; an eraser tap is in the mask of every pen stroke committed before it.
C21_TapPreserved ==
  [][TapEnds =>
       /\ Len(Committed(strokes')) = Len(Committed(strokes)) + 1
       /\ \E j \in 1..Len(strokes') :
            /\ strokes'[j].element = currentPath
            /\ ~strokes'[j].isTemporary
            /\ strokes'[j].type = currentTool
            /\ strokes'[j].d = <<MoveTo(SamplePoint(1))>>
       /\ currentTool = "eraser" =>
            \A i \in 1..Len(strokes) :
              (strokes[i].type = "pen" /\ ~strokes[i].isTemporary) =>
                MaskedBy(drawingContainer', strokes[i].element, currentPath)]_vars

\* the steps after which no indicator may be attached: the tool changes away
\* from the eraser, a session ends, clearAll(), disable(), destroy()
HidesIndicator ==
  \/ currentTool = "eraser" /\ currentTool' # "eraser"
  \/ EndArrives
  \/ initialized /\ ClearAll
  \/ initialized /\ Disable
  \/ Destroy

\* C22 (the eraser indicator exists only with the eraser tool): after every
\* step the indicator is attached only if the eraser is the current tool, and
\* a tool change away from the eraser, the end of a session, clearAll,
\* disable and destroy leave none attached.
C22_IndicatorOnlyWithEraser ==
  [][/\ eraserIndicator' => currentTool' = "eraser"
     /\ HidesIndicator => ~eraserIndicator']_vars

\* an eraser session that showed the indicator has ended and left none
C22_Witness ==
  /\ ~eraserIndicator
  /\ currentTool = "eraser"
  /\ session.last # ""
  /\ \E j \in 1..Len(strokes) : strokes[j].type = "eraser" /\ ~strokes[j].isTemporary

\* C23 (setActiveTool): a call setActiveTool(t) on an enabled tool with t one
\* of pen, eraser, hand leaves getCurrentTool() = t; on a disabled tool, or
\* with any other name, it leaves the current tool and every other field as
\* they were.
C23_SetActiveTool ==
  [][\A toolName \in ToolNames :
       SetActiveTool(toolName) =>
         IF isEnabled /\ toolName \in Tools
         THEN GetCurrentTool' = toolName
         ELSE UNCHANGED <<lifecycle, currentTool, pointer, store,
                          eraserIndicator, now, style, other, capture>>]_vars

\* the hand tool is current on an enabled tool that holds a stroke
C23_Witness ==
  /\ initialized
  /\ isEnabled
  /\ GetCurrentTool = "hand"
  /\ Len(strokes) > 0

\* C24 as stated (toggle switches the enabled state from any state of the
\* instance): the value a toggle() call returns is the opposite of isEnabled
\* before the call.
C24_ToggleAlternates ==
  returned # <<>> => returned[2] = ~returned[1]

\* C24, amended (toggle switches the enabled state of an initialized tool):
\* toggle() returns isEnabled as the call left it; on an initialized tool that
\* is the opposite of isEnabled before the call, on a tool that is not
\* initialized (before init(), after destroy()) it is isEnabled unchanged.
C24_ToggleOfInitialized ==
  returned # <<>> =>
    /\ returned[2] = isEnabled
    /\ initialized => returned[2] = ~returned[1]
    /\ ~initialized => returned[2] = returned[1]

\* toggle() has enabled a disabled tool that holds a stroke
C24_Witness ==
  /\ returned = <<FALSE, TRUE>>
  /\ initialized
  /\ Len(strokes) > 0

\* disable() has returned and neither enable() nor destroy() has been called
\* since: the listeners the bound references named are removed, and only
\* enable() attaches a set to an initialized tool
AfterDisable == initialized /\ ~bound

\* C25 (disable makes the tool non-functional): from the return of disable()
\* to the next enable(), no mouse or touch event starts a session, extends a
\* path or adds a stroke.
C25_DisabledIgnoresInput ==
  [][(AfterDisable /\ InputEvent) =>
       UNCHANGED <<isDrawing, currentPath, currentPathData, strokes, nextId,
                   drawingContainer>>]_vars

\* C26 (destroy cleans up completely): destroy() leaves the store empty,
\* isDrawing false, currentPath and temporaryEraserStroke null, the pen as
\* current tool, and no listener of the instance attached to any target.
C26_DestroyCleansUp ==
  [][Destroy =>
       /\ strokes' = <<>>
       /\ ~isDrawing'
       /\ currentPath' = NULL
       /\ temporaryEraserStroke' = NULL
       /\ currentTool' = "pen"
       /\ ~bound'
       /\ leaked' = "none"]_vars

\* the move events a session can receive: a mousemove on the svg (one contact,
\* within the bounds), a touchmove with n contacts at p
Moves ==
  {<<"mousemove", NextSample, 1>>}
    \cup {<<"touchmove", p, n>> : p \in {NextSample, OutPoint}, n \in TouchCounts}
\* the fields the listeners of the move mv leave, the event arriving now
AfterMove(mv) ==
  LET first == Handler(This, mv[1], mv[2], mv[3], now)
  IN IF Listeners(mv[1]) = 2 THEN Handler(first, mv[1], mv[2], mv[3], now)
     ELSE first

\* C27 (no move of a session is dropped): while a session samples, every move
\* event delivered to the instance appends exactly its point to the live
\* path, touch moves outside the svg bounds and moves with more than one
\* contact included.
C27_EveryMoveSampled ==
  session.active =>
    \A mv \in Moves :
      Listeners(mv[1]) > 0 =>
        AfterMove(mv).currentPathData = Append(currentPathData, LineTo(mv[2]))

\* a session begun by startDrawing is in progress
PenSession == isDrawing /\ currentPath # NULL /\ currentPathWidth \in LineWidths
\* the children the claim gives the drawing container: the render plan of the
\* store, then the live pen path while a pen session lasts
Painted ==
  RenderPlan(strokes)
    \o (IF PenSession
        THEN <<PlanEntry(currentPath, currentPathData, TRUE, -1, <<>>)>>
        ELSE <<>>)

\* C28 (the painted output matches the store): after every handler and public
\* call the children of the drawing container are the render plan of the
\* store, with the configured eraser width, plus the live pen path of a pen
\* session in progress.
C28_PaintMatchesStore ==
  initialized => drawingContainer = Painted

\* a pen session is committed: the end signal arrives with the pen tool for a
\* path startDrawing created
PenCommits ==
  /\ EndArrives
  /\ currentTool = "pen"
  /\ PenSession

\* C29 (a fresh pen stroke is not erased by earlier erasers): right after a
\* pen session is committed its stroke is painted without a mask, and no
\* eraser of the store, committed or temporary, has a greater timestamp.
C29_FreshPenUnmasked ==
  [][PenCommits =>
       /\ \E k \in 1..Len(drawingContainer') :
            drawingContainer'[k].pen = currentPath /\ ~drawingContainer'[k].live
       /\ \A k \in 1..Len(drawingContainer') :
            drawingContainer'[k].pen = currentPath => ~drawingContainer'[k].masked
       /\ \A j, i \in 1..Len(strokes') :
            (strokes'[i].element = currentPath /\ strokes'[j].type # "pen")
              => strokes'[j].timestamp <= strokes'[i].timestamp]_vars

\* a pen stroke was committed into a store that held an eraser stroke, and is
\* painted without a mask
C29_Witness ==
  /\ session.last # ""
  /\ rendered > 0
  /\ Len(strokes) = 2
  /\ strokes[1].type = "eraser" /\ ~strokes[1].isTemporary
  /\ strokes[2].type = "pen"
  /\ \E k \in EntriesOf(strokes[2].element) : ~drawingContainer[k].masked

\* the position of the path element in the array s
PositionOf(s, element) == CHOOSE i \in 1..Len(s) : s[i].element = element
\* s is in non-decreasing order of timestamp
IsSorted(s) ==
  \A i, j \in 1..Len(s) : i < j => s[i].timestamp <= s[j].timestamp
\* t holds the strokes of s, each once, those of equal timestamp in the
\* order they have in s
IsStableReorderOf(t, s) ==
  /\ Len(t) = Len(s)
  /\ \A i \in 1..Len(s) : \E k \in 1..Len(t) : t[k] = s[i]
  /\ \A i, j \in 1..Len(s) :
       (i < j /\ s[i].timestamp = s[j].timestamp)
         => PositionOf(t, s[i].element) < PositionOf(t, s[j].element)

\* C30 (the store is kept ordered): a renderStrokes call leaves the array
\* sorted by non-decreasing timestamp, holding the strokes it held, those of
\* equal timestamp in the order they had; a second call right after it
\* leaves the same array and the same plan.
C30_RenderSortsStore ==
  [][Render =>
       /\ IsSorted(strokes')
       /\ IsStableReorderOf(strokes', strokes)
       /\ SortByTimestamp(strokes') = strokes'
       /\ RenderPlan(SortByTimestamp(strokes')) = drawingContainer']_vars

\* a render has moved the stroke inserted last to the front and kept the two
\* strokes of equal timestamp in insertion order
C30_Witness ==
  /\ rendered = 1
  /\ Len(strokes) = 3
  /\ strokes[1].element = 3
  /\ strokes[2].element = 1
  /\ strokes[3].element = 2
  /\ strokes[2].timestamp = strokes[3].timestamp

\* C31 (event capture follows the tool): on an initialized and enabled tool
\* the svg captures pointer events exactly when the current tool is not the
\* hand, and the target element is in hand mode exactly when it is.
C31_CaptureFollowsTool ==
  (initialized /\ isEnabled) =>
    /\ pointerEvents = "auto" <=> currentTool # "hand"
    /\ handMode <=> currentTool = "hand"

\* C32 (each input event is processed exactly once): at most one set of input
\* listeners of the instance is attached, and one input event starts at most
\* one path and appends at most one point to the current path.
C32_EventProcessedOnce ==
  [][/\ leaked' = "none"
     /\ InputEvent =>
          /\ nextId' <= nextId + 1
          /\ currentPath' = currentPath =>
               Len(currentPathData') <= Len(currentPathData) + 1]_vars

\* the end signals
EndSignals == {"mouseup", "touchend", "touchcancel"}
\* the fields the listeners of the end signal name leave, Date.now()
\* returning t
AfterEnd(name, t) ==
  LET first == Handler(This, name, NextSample, 0, t)
  IN IF Listeners(name) = 2 THEN Handler(first, name, NextSample, 0, t)
     ELSE first

\* C33 (every end signal returns to Idle): an end signal delivered to the
\* instance leaves isDrawing false and no current path, whatever the tool,
\* and the path of a session in progress committed in the store.
C33_EndReturnsToIdle ==
  \A name \in EndSignals, t \in Clock :
    Listeners(name) > 0 =>
      /\ ~AfterEnd(name, t).isDrawing
      /\ AfterEnd(name, t).currentPath = NULL
      /\ (isDrawing /\ currentPath # NULL) =>
           \E j \in 1..Len(AfterEnd(name, t).strokes) :
             /\ AfterEnd(name, t).strokes[j].element = currentPath
             /\ ~AfterEnd(name, t).strokes[j].isTemporary

\* every clone that masks a pen path in the container dc masks it in the
\* container dc2 too, with at least its geometry
KeepsMasks(dc, dc2) ==
  \A k \in 1..Len(dc) :
    \A x \in DOMAIN dc[k].mask :
      \E k2 \in 1..Len(dc2) :
        /\ dc2[k2].pen = dc[k].pen
        /\ \E x2 \in DOMAIN dc2[k2].mask :
             IsPrefix(dc[k].mask[x].d, dc2[k2].mask[x2].d)

\* C34 (erasure is never undone): no step other than clearAll() and destroy()
\* takes a pen stroke out of the mask of eraser geometry the painted plan
\* masks it with.
C34_ErasureNeverUndone ==
  [][(~ClearAll /\ ~Destroy) => KeepsMasks(drawingContainer, drawingContainer')]_vars

\* C35 (in Idle the store holds no uncommitted stroke): while isDrawing is
\* false no stroke of the store is temporary and temporaryEraserStroke is
\* null; and a non-null temporaryEraserStroke is the element of a stroke of
\* the store.
C35_IdleStoreCommitted ==
  /\ ~isDrawing =>
       /\ Committed(strokes) = strokes
       /\ temporaryEraserStroke = NULL
  /\ temporaryEraserStroke # NULL =>
       \E j \in 1..Len(strokes) : strokes[j].element = temporaryEraserStroke

\* C36 (isDrawing and the live path agree): isDrawing is true exactly when
\* currentPath is not null.
C36_DrawingIffPath ==
  isDrawing <=> currentPath # NULL

\* a second session is in progress on a store that holds a committed stroke
C36_Witness ==
  /\ isDrawing
  /\ currentPath # NULL
  /\ session.active
  /\ \E j \in 1..Len(strokes) : ~strokes[j].isTemporary

\* C37: re-initialization restores a working tool: every init() that builds
\* the interface (the first one, and each one that follows a destroy())
\* leaves the instance enabled, so that the tool switches take effect and
\* toggle() disables it.
C37_InitEnables ==
  [][(~initialized /\ InitTool) => isEnabled']_vars

\* setActiveTool(toolName) throws a TypeError at this.toolbar.querySelectorAll,
\* after it has assigned currentTool, when there is no toolbar
SetActiveToolThrows(toolName) ==
  isEnabled /\ toolName \in Tools /\ ~initialized

\* a call of a public method of the instance
PublicCall ==
  \/ ClearAll
  \/ Enable
  \/ Disable
  \/ Toggle
  \/ Destroy
  \/ \E toolName \in ToolNames : SetActiveTool(toolName)

\* the fields of the instance
Fields == <<lifecycle, currentTool, pointer, store, eraserIndicator, style,
            capture>>

\* C38: public methods are safe outside the initialized state: before init()
\* and after destroy(), no public method raises an error, and a call of one
\* leaves every field of the instance as it was.
C38_SafeOutsideInit ==
  /\ [](~initialized =>
          /\ ~ClearAllThrows
          /\ \A toolName \in ToolNames : ~SetActiveToolThrows(toolName))
  /\ [][(~initialized /\ PublicCall) => UNCHANGED Fields]_vars

====
